---- MODULE Spec2Model ----
(***************************************************************************)
(* A model of src/policy.rs: the signed root policy (Policy, Signature,    *)
(* Signed, RoleKeys), its three methods (validate_expires,                 *)
(* extract_pub_key, verify_signature) and the two decodes of a policy      *)
(* document (the typed Policy and the RawPolicy that keeps the raw text of *)
(* the 'signatures' and 'signed' values).                                  *)
(*                                                                         *)
(* Strings that carry an encoding (cert, sig) are modelled by what each    *)
(* decoding stage makes of them: a record says whether the string is valid *)
(* base64 and what the decoded bytes hold, and so on down to the key or    *)
(* the signature.  ECDSA is symbolic: a signature made with key k over     *)
(* message m verifies against exactly (k, m).                              *)
(***************************************************************************)
EXTENDS Integers, Sequences, FiniteSets, TLC

\* ------------------------------------------------------------- bounds
MaxSigs == 2          \* longest 'signatures' vector
MaxTime == 1          \* instants are 0..MaxTime
MaxThreshold == 2     \* thresholds and versions are at most this
MaxWs == 1            \* whitespace tokens at each gap of a document

\* --------------------------------------------------------- value sets
VerifyingKeys == {"K1", "K2"}        \* P-256 verifying keys
Msgs == {"m1", "m2"}                 \* byte strings handed in as msg
KeyIds == {"a", "b"}                 \* hex key ids
Times == 0..MaxTime

\* The bytes a cert string decodes to, stage by stage.  spki "rsa" is a
\* well-formed SubjectPublicKeyInfo that is no P-256 key.
X509Der(x, k) == [x509 |-> x, spki |-> k]
PemText(p, x, k) == [pem |-> p, contents |-> X509Der(x, k)]
CertString(b, p, x, k) == [b64 |-> b, body |-> PemText(p, x, k)]

CertFor(k) == CertString(TRUE, TRUE, TRUE, k)
CertNotBase64 == CertString(FALSE, FALSE, FALSE, "rsa")
CertNotPem == CertString(TRUE, FALSE, FALSE, "rsa")
CertNotX509 == CertString(TRUE, TRUE, FALSE, "rsa")
CertNotP256 == CertString(TRUE, TRUE, TRUE, "rsa")
\* A DER certificate base64-encoded without its PEM armour.
CertDerNoPem == CertString(TRUE, FALSE, TRUE, "K1")
CertStrings ==
    {CertNotBase64, CertNotPem, CertDerNoPem, CertNotX509, CertNotP256}
        \cup {CertFor(k) : k \in VerifyingKeys}

\* The bytes a sig string decodes to: a DER ECDSA signature made with
\* 'by' over 'over', or bytes that are no DER signature.
SigDer(d, k, m) == [der |-> d, by |-> k, over |-> m]
SigString(b, d, k, m) == [b64 |-> b, body |-> SigDer(d, k, m)]

SigBy(k, m) == SigString(TRUE, TRUE, k, m)
SigNotBase64 == SigString(FALSE, FALSE, "K1", "m1")
SigNotDer == SigString(TRUE, FALSE, "K1", "m1")
SigStrings ==
    {SigNotBase64, SigNotDer} \cup {SigBy(k, "m1") : k \in VerifyingKeys}

\* ------------------------------------------------------- the data model
Signature(keyid, sig, cert) == [keyid |-> keyid, sig |-> sig, cert |-> cert]

RoleKeys(keyids, threshold) == [keyids |-> keyids, threshold |-> threshold]

Signed(expires, roles, version) ==
    [expires |-> expires, roles |-> roles, version |-> version]

Policy(signatures, signed) == [signatures |-> signatures, signed |-> signed]

\* ---------------------------------------------------- results of calls
NotCalled == [tag |-> "NotCalled", val |-> "-"]
Ok(v) == [tag |-> "Ok", val |-> v]
Err(e) == [tag |-> "Err", val |-> e]
Panicked == [tag |-> "Panic", val |-> "index out of bounds"]

\* ------------------------------------------------- library operations
\* base64::decode
base64_decode(s) ==
    IF s.b64 THEN [tag |-> "Ok", bytes |-> s.body]
    ELSE [tag |-> "Err", bytes |-> s.body]

\* x509_parser::pem::parse_x509_pem
parse_x509_pem(bytes) ==
    IF bytes.pem THEN [tag |-> "Ok", pem |-> bytes]
    ELSE [tag |-> "Err", pem |-> bytes]

\* x509_parser::parse_x509_certificate, then public_key().raw
parse_x509_certificate(contents) ==
    IF contents.x509 THEN [tag |-> "Ok", public_key |-> contents.spki]
    ELSE [tag |-> "Err", public_key |-> contents.spki]

\* VerifyingKey::<NistP256>::from_public_key_der
from_public_key_der(spki) == spki \in VerifyingKeys

\* ecdsa::Signature::<NistP256>::from_der
from_der(bytes) == bytes.der

\* VerifyingKey::verify
verify(verification_key, msg, signature) ==
    signature.by = verification_key /\ signature.over = msg

\* ------------------------------------------------------ Policy methods
\* &self.signatures[0]: Rust's Vec index panics when the vector is empty
\* (TLA+ sequences start at 1).
HasFirst(self) == Len(self.signatures) >= 1
First(self) == self.signatures[1]

validate_expires_swapped(self, utc_now) == utc_now - self.signed.expires

validate_expires(self, utc_now) == self.signed.expires - utc_now

extract_cert_stages_one_message(cert) ==
    LET decoded == base64_decode(cert)
    IN IF decoded.tag = "Err" THEN Err("base64::DecodeError")
       ELSE LET pem == parse_x509_pem(decoded.bytes)
            IN IF pem.tag = "Err"
               THEN Err("Error parsing fulcio certificate")
               ELSE LET res_x509 == parse_x509_certificate(pem.pem.contents)
                    IN IF res_x509.tag = "Err"
                       THEN Err("Error parsing fulcio certificate")
                       ELSE IF from_public_key_der(res_x509.public_key)
                            THEN Ok(res_x509.public_key)
                            ELSE Err("Cannot load key")

extract_cert_stages(cert) ==
    LET decoded == base64_decode(cert)
    IN IF decoded.tag = "Err" THEN Err("base64::DecodeError")
       ELSE LET pem == parse_x509_pem(decoded.bytes)
            IN IF pem.tag = "Err"
               THEN Err("Error parsing fulcio PEM certificate")
               ELSE LET res_x509 == parse_x509_certificate(pem.pem.contents)
                    IN IF res_x509.tag = "Err"
                       THEN Err("Error parsing fulcio certificate")
                       ELSE IF from_public_key_der(res_x509.public_key)
                            THEN Ok(res_x509.public_key)
                            ELSE Err("Cannot load key")

extract_pub_key(self) ==
    IF ~HasFirst(self) THEN Panicked
    ELSE extract_cert_stages(First(self).cert)

verify_sig_stages(sig, verification_key, msg) ==
    LET signature_raw == base64_decode(sig)
    IN IF signature_raw.tag = "Err" THEN Err("base64::DecodeError")
       ELSE IF ~from_der(signature_raw.bytes) THEN Err("signature::Error")
       ELSE IF verify(verification_key, msg, signature_raw.bytes)
            THEN Ok("unit")
            ELSE Err("Verification failed")

verify_signature_last(self, verification_key, msg) ==
    IF ~HasFirst(self) THEN Panicked
    ELSE verify_sig_stages(self.signatures[Len(self.signatures)].sig,
                           verification_key, msg)

verify_signature(self, verification_key, msg) ==
    IF ~HasFirst(self) THEN Panicked
    ELSE verify_sig_stages(First(self).sig, verification_key, msg)

\* ------------------------------------------------ documents and decode
\* A document is a sequence of tokens: punctuation, a quoted string, a
\* number as written, or one whitespace character " ".  "[]" stands for the
\* text of the 'signatures' array.
Digits == <<"0", "1", "2", "3", "4", "5", "6", "7", "8", "9">>
RoleNames == <<"Root", "targets">>

Ws(n) == [i \in 1..n |-> " "]

RECURSIVE RoleMembers(_, _, _)
RoleMembers(thresholds, i, w) ==
    IF i > Len(thresholds) THEN <<>>
    ELSE (IF i > 1 THEN <<",">> \o Ws(w) ELSE <<>>)
         \o <<RoleNames[i], ":">> \o Ws(w)
         \o <<"{", "threshold", ":">> \o Ws(w)
         \o <<Digits[thresholds[i] + 1], "}">>
         \o RoleMembers(thresholds, i + 1, w)

RolesText(thresholds, w) == <<"{">> \o RoleMembers(thresholds, 1, w) \o <<"}">>

\* The text of a 'signed' value: version v, one threshold per role, the
\* members in either order, w whitespace characters at each gap, and
\* optionally a member the Signed struct does not know.
SignedText(v, thresholds, versionFirst, extra, w) ==
    LET version == <<"version", ":">> \o Ws(w) \o <<Digits[v + 1]>>
        roles == <<"roles", ":">> \o Ws(w) \o RolesText(thresholds, w)
        sep == <<",">> \o Ws(w)
    IN <<"{">> \o Ws(w)
       \o (IF versionFirst THEN version \o sep \o roles
           ELSE roles \o sep \o version)
       \o (IF extra THEN sep \o <<"x", ":", "1e0">> ELSE <<>>)
       \o Ws(w) \o <<"}">>

DocumentText(signedText, signedFirst, w) ==
    LET signatures == <<"signatures", ":">> \o Ws(w) \o <<"[]">>
        signed == <<"signed", ":">> \o Ws(w) \o signedText
        sep == <<",">> \o Ws(w)
    IN Ws(w) \o <<"{">> \o Ws(w)
       \o (IF signedFirst THEN signed \o sep \o signatures
           ELSE signatures \o sep \o signed)
       \o Ws(w) \o <<"}">> \o Ws(w)

\* serde_json's reader: skip whitespace, find the end of a value, list the
\* members of an object as (key, first token, last token).
RECURSIVE SkipWs(_, _)
SkipWs(b, i) ==
    IF i <= Len(b) /\ b[i] = " " THEN SkipWs(b, i + 1) ELSE i

RECURSIVE MatchClose(_, _, _)
MatchClose(b, i, depth) ==
    IF i > Len(b) THEN Len(b)
    ELSE IF b[i] = "{" THEN MatchClose(b, i + 1, depth + 1)
    ELSE IF b[i] = "}"
         THEN IF depth = 1 THEN i ELSE MatchClose(b, i + 1, depth - 1)
    ELSE MatchClose(b, i + 1, depth)

ValueEnd(b, i) == IF b[i] = "{" THEN MatchClose(b, i + 1, 1) ELSE i

RECURSIVE Members(_, _, _)
Members(b, i, acc) ==
    LET k == SkipWs(b, i)
    IN IF b[k] = "}" THEN acc
       ELSE LET colon == SkipWs(b, k + 1)
                from == SkipWs(b, colon + 1)
                to == ValueEnd(b, from)
                next == SkipWs(b, to + 1)
                found == acc \cup {[key |-> b[k], from |-> from, to |-> to]}
            IN IF b[next] = "," THEN Members(b, next + 1, found) ELSE found

ObjectMembers(b, open) == Members(b, open + 1, {})

Member(ms, key) == CHOOSE m \in ms : m.key = key

\* &'a RawValue with #[serde(borrow)]: the text of the value as it stands
\* in the input.
raw_value_compacted(b, from, to) ==
    SelectSeq(SubSeq(b, from, to), LAMBDA t : t # " ")

raw_value(b, from, to) == SubSeq(b, from, to)

\* serde_json::from_slice::<RawPolicy>
raw_policy_from_slice(raw_json) ==
    LET ms == ObjectMembers(raw_json, SkipWs(raw_json, 1))
        signatures == Member(ms, "signatures")
        signed == Member(ms, "signed")
    IN [tag |-> "Ok",
        signatures |-> raw_value(raw_json, signatures.from, signatures.to),
        signed |-> raw_value(raw_json, signed.from, signed.to)]

\* A JSON number read as u64, and as NonZeroU64 (Err on 0).
u64_from_token(t) == (CHOOSE d \in DOMAIN Digits : Digits[d] = t) - 1

u64_unchecked(t) == [tag |-> "Ok", n |-> u64_from_token(t)]

nonzero_u64(t) ==
    IF u64_from_token(t) = 0 THEN [tag |-> "Err", n |-> 0]
    ELSE [tag |-> "Ok", n |-> u64_from_token(t)]

\* serde_json::from_slice::<Policy>, for the fields whose types can refuse a
\* value: Signed.version and each RoleKeys.threshold.  Members the structs
\* do not name are skipped.
policy_from_slice(raw_json) ==
    LET ms == ObjectMembers(raw_json, SkipWs(raw_json, 1))
        signed == ObjectMembers(raw_json, Member(ms, "signed").from)
        version == nonzero_u64(raw_json[Member(signed, "version").from])
        roles == ObjectMembers(raw_json, Member(signed, "roles").from)
        thresholds ==
            {[role |-> r.key,
              threshold |->
                nonzero_u64(raw_json[Member(ObjectMembers(raw_json, r.from),
                                            "threshold").from])] : r \in roles}
    IN IF version.tag = "Err" \/ \E r \in thresholds : r.threshold.tag = "Err"
       THEN [tag |-> "Err", version |-> 0, roles |-> {}]
       ELSE [tag |-> "Ok", version |-> version.n,
             roles |-> {[role |-> r.role, threshold |-> r.threshold.n] :
                            r \in thresholds}]

\* --------------------------------------------------------------- state
VARIABLES
    policy,      \* the decoded Policy the methods are called on
    signedRaw,   \* the raw text of the document's 'signed' value
    now,         \* what Utc::now() reads during this verification
    keyRes,      \* what extract_pub_key returned
    verRes,      \* what verify_signature returned
    verArgs,     \* the (verification_key, msg) it was called with
    expRes,      \* what validate_expires returned
    crashed,     \* a panic has ended the process
    raw_json,    \* the bytes of a document handed to the decodes
    authored,    \* how raw_json was written: version, thresholds, 'signed' text
    rawRes,      \* what from_slice::<RawPolicy> returned
    polRes,      \* what from_slice::<Policy> returned
    testMsg      \* the msg the test hands to verify_signature

methodVars == <<policy, signedRaw, now, keyRes, verRes, verArgs, expRes, crashed>>
decodeVars == <<raw_json, authored, rawRes, polRes, testMsg>>
vars == <<methodVars, decodeVars>>

\* The policies of the model.  The first entry ranges over every cert and
\* sig string; later entries over the well-formed ones.
FirstEntries ==
    {Signature(id, s, c) : id \in KeyIds, s \in SigStrings, c \in CertStrings}
LaterEntries ==
    {Signature(id, SigBy(k, "m1"), CertFor("K1")) :
        id \in KeyIds, k \in VerifyingKeys}

RECURSIVE SeqsUpTo(_, _)
SeqsUpTo(S, n) ==
    IF n = 0 THEN {<<>>}
    ELSE LET shorter == SeqsUpTo(S, n - 1)
         IN shorter \cup {Append(q, e) : q \in shorter, e \in S}

LaterVecs == SeqsUpTo(LaterEntries, MaxSigs - 1)

SignatureVecs ==
    {<<>>} \cup {<<f>> \o rest : f \in FirstEntries, rest \in LaterVecs}

RootKeyIds == {<<"a">>, <<"a", "b">>}

\* threshold is a NonZeroU64: it is never 0 in a decoded Policy.
RolesValues ==
    {[Root |-> RoleKeys(ids, t)] : ids \in RootKeyIds, t \in 1..MaxThreshold}

SignedValues == {Signed(e, r, 1) : e \in Times, r \in RolesValues}

Policies == {Policy(sigs, s) : sigs \in SignatureVecs, s \in SignedValues}

NoDocument ==
    /\ raw_json = <<>>
    /\ authored = [version |-> 1, thresholds |-> <<1>>, signed |-> <<>>]
    /\ rawRes = [tag |-> "NotCalled", signatures |-> <<>>, signed |-> <<>>]
    /\ polRes = [tag |-> "NotCalled", version |-> 0, roles |-> {}]
    /\ testMsg = <<"NotCalled">>

NothingCalled ==
    /\ keyRes = NotCalled
    /\ verRes = NotCalled
    /\ verArgs = <<"-", "-">>
    /\ expRes = [tag |-> "NotCalled", duration |-> 0]
    /\ crashed = FALSE

Init ==
    /\ policy \in Policies
    /\ signedRaw \in Msgs
    /\ now \in Times
    /\ NothingCalled
    /\ NoDocument

ValidateExpires ==
    /\ ~crashed
    /\ expRes.tag = "NotCalled"
    /\ expRes' = [tag |-> "Returned", duration |-> validate_expires(policy, now)]
    /\ UNCHANGED <<policy, signedRaw, now, keyRes, verRes, verArgs, crashed>>
    /\ UNCHANGED decodeVars

ExtractPubKey ==
    /\ ~crashed
    /\ keyRes.tag = "NotCalled"
    /\ keyRes' = extract_pub_key(policy)
    /\ crashed' = (keyRes'.tag = "Panic")
    /\ UNCHANGED <<policy, signedRaw, now, verRes, verArgs, expRes>>
    /\ UNCHANGED decodeVars

VerifySignature ==
    /\ ~crashed
    /\ verRes.tag = "NotCalled"
    /\ \E verification_key \in VerifyingKeys, msg \in Msgs :
          /\ verRes' = verify_signature(policy, verification_key, msg)
          /\ verArgs' = <<verification_key, msg>>
    /\ crashed' = (verRes'.tag = "Panic")
    /\ UNCHANGED <<policy, signedRaw, now, keyRes, expRes>>
    /\ UNCHANGED decodeVars

Next == ValidateExpires \/ ExtractPubKey \/ VerifySignature

Spec == Init /\ [][Next]_vars

\* ---- the two methods that read signatures[0], on policies that differ in
\* everything but the instants
InitFirst ==
    /\ policy \in {Policy(sigs, Signed(0, r, 1)) :
                      sigs \in SignatureVecs, r \in RolesValues}
    /\ signedRaw = "m1"
    /\ now = 0
    /\ NothingCalled
    /\ NoDocument

NextFirst == ExtractPubKey \/ VerifySignature

SpecFirst == InitFirst /\ [][NextFirst]_vars

\* ---- the decodes of a document
ThresholdVecs ==
    {<<t>> : t \in 0..MaxThreshold}
        \cup {<<t, u>> : t \in 0..MaxThreshold, u \in 0..MaxThreshold}

InitDecode ==
    /\ \E v \in 0..MaxThreshold, ts \in ThresholdVecs, w \in 0..MaxWs,
          versionFirst \in BOOLEAN, extra \in BOOLEAN, signedFirst \in BOOLEAN :
          LET text == SignedText(v, ts, versionFirst, extra, w)
          IN /\ authored = [version |-> v, thresholds |-> ts, signed |-> text]
             /\ raw_json = DocumentText(text, signedFirst, w)
    /\ rawRes = [tag |-> "NotCalled", signatures |-> <<>>, signed |-> <<>>]
    /\ polRes = [tag |-> "NotCalled", version |-> 0, roles |-> {}]
    /\ testMsg = <<"NotCalled">>
    /\ policy = Policy(<<>>, Signed(0, [Root |-> RoleKeys(<<"a">>, 1)], 1))
    /\ signedRaw = "m1"
    /\ now = 0
    /\ NothingCalled

DecodePolicy ==
    /\ polRes.tag = "NotCalled"
    /\ polRes' = policy_from_slice(raw_json)
    /\ UNCHANGED <<raw_json, authored, rawRes, testMsg>>
    /\ UNCHANGED methodVars

DecodeRawPolicy ==
    /\ rawRes.tag = "NotCalled"
    /\ rawRes' = raw_policy_from_slice(raw_json)
    /\ UNCHANGED <<raw_json, authored, polRes, testMsg>>
    /\ UNCHANGED methodVars

\* tests::validate_signature_success: both decodes succeeded, and msg is
\* raw_policy.signed.get().as_bytes().
TestTakeMessage ==
    /\ polRes.tag = "Ok"
    /\ rawRes.tag = "Ok"
    /\ testMsg = <<"NotCalled">>
    /\ testMsg' = rawRes.signed
    /\ UNCHANGED <<raw_json, authored, rawRes, polRes>>
    /\ UNCHANGED methodVars

NextDecode == DecodePolicy \/ DecodeRawPolicy \/ TestTakeMessage

SpecDecode == InitDecode /\ [][NextDecode]_vars

\* =============================================================== claims

\* ---- what the policy evaluation of the design asks for
Entries(p) == {p.signatures[i] : i \in DOMAIN p.signatures}

\* An entry's signature verifies: its cert yields a key and its sig checks
\* against that key and the message.
EntryVerifies(e, m) ==
    LET k == extract_cert_stages(e.cert)
    IN k.tag = "Ok" /\ verify_sig_stages(e.sig, k.val, m).tag = "Ok"

RootRole(p) == p.signed.roles.Root
Listed(p) == {RootRole(p).keyids[i] : i \in DOMAIN RootRole(p).keyids}

CountedKeyIds(p, m) ==
    {e.keyid : e \in {x \in Entries(p) : EntryVerifies(x, m) /\ x.keyid \in Listed(p)}}

RootSatisfied(p, m) == Cardinality(CountedKeyIds(p, m)) >= RootRole(p).threshold

Expired == policy.signed.expires - now <= 0

\* ---- what the code's caller observes
\* The calls of a verification, as the tests make them: validate_expires,
\* extract_pub_key, and verify_signature with the extracted key over the raw
\* 'signed' text.
PipelineDone ==
    /\ keyRes.tag # "NotCalled"
    /\ keyRes.tag = "Ok" =>
          (verRes.tag # "NotCalled" /\ verArgs = <<keyRes.val, signedRaw>>)

PipelineResult == IF keyRes.tag = "Ok" THEN verRes ELSE keyRes

Evaluated == PipelineDone /\ expRes.tag = "Returned"

\* to_std() succeeds on the duration and the signature checked.
Accepted == PipelineResult.tag = "Ok" /\ expRes.duration >= 0

\* C1: once a document has been evaluated, it is accepted exactly when it is
\* not expired and at least threshold distinct listed keyids carry a
\* signature that verifies against the raw 'signed' text.
C1_TrustedIffRootThreshold ==
    Evaluated => (Accepted <=> (~Expired /\ RootSatisfied(policy, signedRaw)))

\* C2: for a document whose expires is not after now, no operation returns
\* an accepting outcome: verify_signature over the raw 'signed' text does
\* not return Ok and validate_expires returns no non-negative duration.
C2_ExpiredNeverAccepted ==
    policy.signed.expires <= now =>
        /\ ~(verRes.tag = "Ok" /\ verArgs[2] = signedRaw)
        /\ ~(expRes.tag = "Returned" /\ expRes.duration >= 0)

\* C3 (as claimed): validate_expires returns a non-negative duration exactly
\* when expires is strictly after now, and the duration is expires - now.
C3_NonNegativeIffStrictlyAfter ==
    expRes.tag = "Returned" =>
        /\ (expRes.duration >= 0) <=> (policy.signed.expires > now)
        /\ expRes.duration = policy.signed.expires - now

\* C3 (amended): validate_expires returns a non-negative duration exactly
\* when expires is at or after now, a positive one exactly when expires is
\* strictly after now, and the duration is expires - now.
C3_NonNegativeIffNotBefore ==
    expRes.tag = "Returned" =>
        /\ (expRes.duration >= 0) <=> (policy.signed.expires >= now)
        /\ (expRes.duration > 0) <=> (policy.signed.expires > now)
        /\ expRes.duration = policy.signed.expires - now

C3_Witness ==
    expRes.tag = "Returned" /\ policy.signed.expires = now /\ expRes.duration = 0

\* C4: extract_pub_key and verify_signature never panic, whatever decoded
\* Policy they are called on, one with no signatures included.
C4_NoPanic == keyRes.tag # "Panic" /\ verRes.tag # "Panic" /\ ~crashed

\* ---- C5
\* The stage of extract_pub_key at which a cert string first fails:
\* 1 base64, 2 PEM, 3 X.509, 4 P-256 key, 0 none.
FirstFailingStage(c) ==
    IF ~c.b64 THEN 1
    ELSE IF ~c.body.pem THEN 2
    ELSE IF ~c.body.contents.x509 THEN 3
    ELSE IF c.body.contents.spki \notin VerifyingKeys THEN 4
    ELSE 0

\* C5: extract_pub_key returns the certificate's key exactly when all four
\* stages succeed; otherwise it returns an error that is the same for certs
\* failing first at the same stage and differs from the error of every cert
\* failing first at another stage.
C5_StagesReportedDistinctly ==
    (keyRes.tag # "NotCalled" /\ HasFirst(policy)) =>
        LET c == First(policy).cert
        IN /\ keyRes.tag \in {"Ok", "Err"}
           /\ keyRes.tag = "Ok" <=> FirstFailingStage(c) = 0
           /\ keyRes.tag = "Ok" => keyRes.val = c.body.contents.spki
           /\ \A c2 \in CertStrings :
                 (FirstFailingStage(c2) # 0 /\ FirstFailingStage(c) # 0) =>
                    ((FirstFailingStage(c2) = FirstFailingStage(c))
                        <=> (extract_cert_stages(c2) = keyRes))

C5_Witness ==
    /\ keyRes.tag = "Err"
    /\ HasFirst(policy)
    /\ First(policy).cert = CertDerNoPem

\* C6: every failure of verify_signature is the same error: whatever sig
\* string, key and message make it fail, the error returned is the one this
\* call returned.
C6_UniformFailure ==
    verRes.tag = "Err" =>
        \A s \in SigStrings, k \in VerifyingKeys, m \in Msgs :
            LET r == verify_sig_stages(s, k, m)
            IN r.tag = "Err" => r = verRes

\* ---- C7
Bijections(n) ==
    {f \in [1..n -> 1..n] : \A i, j \in 1..n : f[i] = f[j] => i = j}

Reorderings(s) ==
    {[i \in 1..Len(s) |-> s[f[i]]] : f \in Bijections(Len(s))}

PipelineOutcome(p, m) ==
    LET k == extract_pub_key(p)
    IN IF k.tag = "Ok" THEN verify_signature(p, k.val, m) ELSE k

\* C7: the outcome of verifying a document is the outcome of verifying the
\* document with its signatures in any other order.
C7_OrderIndependent ==
    PipelineDone =>
        \A sigs \in Reorderings(policy.signatures) :
            PipelineOutcome(Policy(sigs, policy.signed), signedRaw) = PipelineResult

\* ---- C10
\* The policies that agree with p on signatures[0].cert and signatures[0].sig.
SameFirstCertAndSig(p) ==
    {Policy(<<Signature(id, First(p).sig, First(p).cert)>> \o rest,
            Signed(p.signed.expires, r, p.signed.version)) :
        id \in KeyIds, rest \in LaterVecs, r \in RolesValues}

\* C10: what extract_pub_key and verify_signature return is what they return,
\* for the same key and message, on every policy with the same
\* signatures[0].cert and signatures[0].sig, whatever its later entries, its
\* signatures[0].keyid and its signed roles.
C10_OnlyFirstSignature ==
    /\ (HasFirst(policy) /\ keyRes.tag # "NotCalled") =>
          \A q \in SameFirstCertAndSig(policy) : extract_pub_key(q) = keyRes
    /\ (HasFirst(policy) /\ verRes.tag # "NotCalled") =>
          \A q \in SameFirstCertAndSig(policy) :
              verify_signature(q, verArgs[1], verArgs[2]) = verRes

C10_Witness ==
    /\ Len(policy.signatures) = 2
    /\ verRes.tag = "Ok"
    /\ keyRes.tag = "Ok"
    /\ ~EntryVerifies(policy.signatures[2], verArgs[2])

\* ---- C8
AuthoredThresholds == {authored.thresholds[i] : i \in DOMAIN authored.thresholds}

\* C8: decoding a document whose signed.version is 0, or one of whose roles
\* has threshold 0, returns an error; a decoded Policy has the version and
\* the thresholds of the document, all at least 1.
C8_ZeroRejectedAtDecode ==
    polRes.tag # "NotCalled" =>
        /\ (authored.version = 0 \/ 0 \in AuthoredThresholds) => polRes.tag = "Err"
        /\ polRes.tag = "Ok" =>
              /\ polRes.version = authored.version
              /\ polRes.version >= 1
              /\ {r.threshold : r \in polRes.roles} = AuthoredThresholds
              /\ \A r \in polRes.roles : r.threshold >= 1

C8_Witness ==
    /\ polRes.tag = "Err"
    /\ authored.version = 1
    /\ authored.thresholds = <<1, 0>>

\* C9: the 'signed' fragment of the raw decode is, token for token, the text
\* of the 'signed' value as it was written into the document, whitespace,
\* member order and number formatting included, and it is the message the
\* test hands to verify_signature.
C9_RawSignedIsInputSpan ==
    /\ rawRes.tag = "Ok" => rawRes.signed = authored.signed
    /\ testMsg # <<"NotCalled">> => testMsg = authored.signed

C9_Witness ==
    /\ rawRes.tag = "Ok"
    /\ testMsg = authored.signed
    /\ \E i \in DOMAIN authored.signed : authored.signed[i] = " "
    /\ \E i \in DOMAIN authored.signed : authored.signed[i] = "1e0"
    /\ authored.signed[2] = " " /\ authored.signed[3] = "roles"

====
